---- MODULE Spec2Model ----
(***************************************************************************)
(* Unclear-requirement detector: the hybrid analyzer (detector.py), the   *)
(* keyword classifier (model.py) and the Agent Assist loop of the         *)
(* Streamlit page (app.py).                                                *)
(*                                                                         *)
(* Texts are strings; a character is a string of length 1.  Python's      *)
(* str/re operations are defined character by character below.            *)
(***************************************************************************)
EXTENDS Integers, Sequences, FiniteSets, TLC

----------------------------------------------------------------------------
(* Characters and the str / re primitives the code uses.  A text is a      *)
(* string; the scans below read it as the tuple of its characters.         *)

\* the characters of s, as a tuple of strings of length 1
Chars(s) == [i \in 1..Len(s) |-> SubSeq(s, i, i)]

UpperToLower ==
    [c \in {"A", "B", "C", "D", "E", "F", "G", "H", "I", "J", "K", "L", "M",
            "N", "O", "P", "Q", "R", "S", "T", "U", "V", "W", "X", "Y", "Z"} |->
        CASE c = "A" -> "a" [] c = "B" -> "b" [] c = "C" -> "c" [] c = "D" -> "d"
          [] c = "E" -> "e" [] c = "F" -> "f" [] c = "G" -> "g" [] c = "H" -> "h"
          [] c = "I" -> "i" [] c = "J" -> "j" [] c = "K" -> "k" [] c = "L" -> "l"
          [] c = "M" -> "m" [] c = "N" -> "n" [] c = "O" -> "o" [] c = "P" -> "p"
          [] c = "Q" -> "q" [] c = "R" -> "r" [] c = "S" -> "s" [] c = "T" -> "t"
          [] c = "U" -> "u" [] c = "V" -> "v" [] c = "W" -> "w" [] c = "X" -> "x"
          [] c = "Y" -> "y" [] c = "Z" -> "z"]

UpperLetters == DOMAIN UpperToLower

LowerLetters ==
    {"a", "b", "c", "d", "e", "f", "g", "h", "i", "j", "k", "l", "m",
     "n", "o", "p", "q", "r", "s", "t", "u", "v", "w", "x", "y", "z"}

Digits == {"0", "1", "2", "3", "4", "5", "6", "7", "8", "9"}

\* \w of the re module, for the characters of the modelled texts
WordChars == LowerLetters \cup UpperLetters \cup Digits \cup {"_"}

\* \s of the re module and the characters str.strip() removes
Whitespace == {" "}

\* str.lower(), on the characters of a text
Lower(cs) ==
    [i \in 1..Len(cs) |-> IF cs[i] \in UpperLetters THEN UpperToLower[cs[i]] ELSE cs[i]]

\* the character at i is a \w character (no character outside the text is)
IsWordAt(cs, i) == i >= 1 /\ i <= Len(cs) /\ cs[i] \in WordChars

\* the non-empty literal lit (characters) occurs in cs at position i
MatchAt(cs, i, lit) ==
    /\ i >= 1
    /\ i + Len(lit) - 1 <= Len(cs)
    /\ cs[i] = lit[1]
    /\ SubSeq(cs, i, i + Len(lit) - 1) = lit

\* the positions at which lit occurs in cs
Hits(cs, lit) ==
    LET l == lit
        n == Len(l)
    IN  {i \in 1..(Len(cs) - n + 1) : cs[i] = l[1] /\ SubSeq(cs, i, i + n - 1) = l}

\* lit occurs in cs
Occurs(cs, lit) ==
    LET l == lit
        n == Len(l)
    IN  \E i \in 1..(Len(cs) - n + 1) :
            cs[i] = l[1] /\ SubSeq(cs, i, i + n - 1) = l

\* `lit in s`
Contains(s, lit) ==
    LET cs == Chars(s)
    IN  Occurs(cs, Chars(lit))

\* `lit in s.lower()`, which is also "re.search(lit, s, re.IGNORECASE) finds
\* a match" for a lower-case literal
ContainsCI(s, lit) ==
    LET cs == Lower(Chars(s))
    IN  Occurs(cs, Chars(lit))

SetMin(S) == CHOOSE x \in S : \A y \in S : x <= y
SetMax(S) == CHOOSE x \in S : \A y \in S : x >= y

\* s from position `from` on, with the matches at `hits` (each n characters
\* long) replaced by repl: leftmost first, non-overlapping
RECURSIVE ReplaceHits(_, _, _, _, _)
ReplaceHits(s, from, hits, n, repl) ==
    LET later == {i \in hits : i >= from}
    IN  IF later = {} THEN SubSeq(s, from, Len(s))
        ELSE LET i == SetMin(later)
             IN  SubSeq(s, from, i - 1) \o repl
                   \o ReplaceHits(s, i + n, later, n, repl)

\* the substitution without flags=re.IGNORECASE
SubCI_CaseSensitive(s, lit, repl) ==
    LET hits == Hits(Chars(s), Chars(lit))
    IN  IF hits = {} THEN s ELSE ReplaceHits(s, 1, hits, Len(lit), repl)

\* re.sub(lit, repl, s, flags=re.IGNORECASE) for a literal lower-case pattern
SubCI(s, lit, repl) ==
    LET lower == Lower(Chars(s))
        hits == Hits(lower, Chars(lit))
    IN  IF hits = {} THEN s ELSE ReplaceHits(s, 1, hits, Len(lit), repl)

\* s.replace(lit, repl, 1): the first occurrence only
ReplaceFirst(s, lit, repl) ==
    LET cs == Chars(s)
        hits == Hits(cs, Chars(lit))
    IN  IF hits = {} THEN s
        ELSE LET i == SetMin(hits)
             IN  SubSeq(s, 1, i - 1) \o repl \o SubSeq(s, i + Len(lit), Len(s))

\* the last position at or before i of a character outside chars (0 if none)
RECURSIVE LastOutside(_, _, _)
LastOutside(cs, i, chars) ==
    IF i = 0 \/ cs[i] \notin chars THEN i ELSE LastOutside(cs, i - 1, chars)

\* s.rstrip(chars)
RStrip(s, chars) ==
    LET cs == Chars(s)
    IN  SubSeq(s, 1, LastOutside(cs, Len(cs), chars))

\* bool(s.strip())
StripNonEmpty(s) ==
    LET cs == Chars(s)
    IN  ~(\A i \in 1..Len(cs) : cs[i] \in Whitespace)

\* sep.join(parts)
RECURSIVE Join(_, _)
Join(sep, parts) ==
    IF parts = <<>> THEN ""
    ELSE IF Len(parts) = 1 THEN parts[1]
    ELSE parts[1] \o sep \o Join(sep, Tail(parts))

\* [x for x in seq if x in S]
Filter(seq, S) == SelectSeq(seq, LAMBDA x : x \in S)

Range(seq) == {seq[i] : i \in 1..Len(seq)}

\* seq[a:b] of Python, 0-based, end-exclusive, clipped
Slice(seq, a, b) ==
    SubSeq(seq, a + 1, IF b < Len(seq) THEN b ELSE Len(seq))

----------------------------------------------------------------------------
(* detector.py: lexicon matcher and highlighting                           *)

VAGUE_WORDS ==
    <<"fast", "quick", "efficient", "user-friendly", "secure", "many", "large",
      "simple", "easy", "robust", "scalable", "flexible", "reliable">>

\* [word for word in VAGUE_WORDS if word in text.lower()]
detect_vague_terms(text) ==
    LET lower == Lower(Chars(text))
    IN  SelectSeq(VAGUE_WORDS, LAMBDA word : Occurs(lower, Chars(word)))

\* sorted(VAGUE_WORDS, key=len, reverse=True): a stable sort, and
\* reverse=True keeps the original order of terms of equal length
SortedByLenDesc ==
    LET lens == {Len(VAGUE_WORDS[i]) : i \in 1..Len(VAGUE_WORDS)}
        F[n \in 0..SetMax(lens)] ==
            IF n = 0 THEN <<>>
            ELSE SelectSeq(VAGUE_WORDS, LAMBDA w : Len(w) = n) \o F[n - 1]
    IN  F[SetMax(lens)]

\* the loop of highlight_vague_terms / highlight_vague_terms_colored over
\* the terms the lower-cased ORIGINAL text contains; each substitution works
\* on the text highlighted so far
RECURSIVE HighlightLoop(_, _, _, _)
HighlightLoop(highlighted, terms, pre, post) ==
    IF terms = <<>> THEN highlighted
    ELSE HighlightLoop(SubCI(highlighted, Head(terms), pre \o Head(terms) \o post),
                       Tail(terms), pre, post)

\* the terms of sorted(VAGUE_WORDS, ...) that pass `if term in lower_text`
TermsToHighlight(text) ==
    Filter(SortedByLenDesc, Range(detect_vague_terms(text)))

highlight_vague_terms(text) ==
    HighlightLoop(text, TermsToHighlight(text), "**", "**")

highlight_vague_terms_colored(text) ==
    HighlightLoop(text, TermsToHighlight(text), ":red[", "]")

----------------------------------------------------------------------------
(* detector.py: structural checks                                          *)

\* the alternatives of (seconds?|minutes?|ms|MB|GB|%|users?), lower-cased
\* because the search is re.IGNORECASE
Units ==
    {"seconds", "second", "minutes", "minute", "ms", "mb", "gb", "%",
     "users", "user"}

\* the last index of the run of characters of S that starts at i (i - 1 when
\* the character at i is not in S): the greedy \d+ and \s*
RECURSIVE RunEnd(_, _, _)
RunEnd(cs, i, S) ==
    IF i <= Len(cs) /\ cs[i] \in S THEN RunEnd(cs, i + 1, S) ELSE i - 1

\* \b between positions p and p + 1
WordBoundary(cs, p) == IsWordAt(cs, p) # IsWordAt(cs, p + 1)

\* the search with \d* in place of \d+: a unit with no number matches
HasMeasurable_OptionalDigits(text) ==
    LET cs == Lower(Chars(text))
    IN  \E i \in 1..Len(cs) :
            /\ WordBoundary(cs, i - 1)
            /\ LET j == RunEnd(cs, i, Digits)
                   k == RunEnd(cs, j + 1, Whitespace) + 1
               IN  \E u \in Units :
                       LET unit == Chars(u)
                       IN  /\ MatchAt(cs, k, unit)
                           /\ WordBoundary(cs, k + Len(u) - 1)

\* re.findall(r'\b\d+\s*(seconds?|minutes?|ms|MB|GB|%|users?)\b', text,
\* re.IGNORECASE) finds something
HasMeasurable(text) ==
    LET cs == Lower(Chars(text))
    IN  \E i \in 1..Len(cs) :
            /\ cs[i] \in Digits
            /\ WordBoundary(cs, i - 1)
            /\ LET j == RunEnd(cs, i, Digits)
                   k == RunEnd(cs, j + 1, Whitespace) + 1
               IN  \E u \in Units :
                       LET unit == Chars(u)
                       IN  /\ MatchAt(cs, k, unit)
                           /\ WordBoundary(cs, k + Len(u) - 1)

detect_missing_constraints(text) == ~HasMeasurable(text)

\* punctuation nltk's word_tokenize always makes a token of its own
SplitPunct == {"[", "]", "(", ")", ";", "%", ":", "?", "!"}

\* the character at i is a token of its own: bracket-like punctuation, a
\* period that ends a sentence, a comma not followed by a digit
IsPunctToken(cs, i) ==
    \/ cs[i] \in SplitPunct
    \/ cs[i] = "." /\ (i = Len(cs) \/ cs[i + 1] \in Whitespace)
    \/ cs[i] = "," /\ (i = Len(cs) \/ cs[i + 1] \notin Digits)

\* the character at i is part of a word-like token
IsChunkAt(cs, i) ==
    /\ i >= 1
    /\ i <= Len(cs)
    /\ cs[i] \notin Whitespace
    /\ ~IsPunctToken(cs, i)

\* len(word_tokenize(text)): the punctuation tokens plus the maximal runs of
\* the other non-blank characters
TokenCount(text) ==
    LET cs == Chars(text)
    IN  Cardinality({i \in 1..Len(cs) :
            \/ IsPunctToken(cs, i)
            \/ IsChunkAt(cs, i) /\ ~IsChunkAt(cs, i - 1)})

detect_complex_sentence(text, max_length) == TokenCount(text) > max_length

----------------------------------------------------------------------------
(* model.py: the classifier fitted at import time                          *)

\* vectorizer.get_feature_names_out() with clf.coef_[0]: the vocabulary of
\* TRAIN_SENTENCES (lower-cased tokens of two or more \w characters, sorted)
\* and the coefficient LogisticRegression() (L2, C = 1) fits to it, in
\* thousandths; shown is str(round(coefficient, 2))
FEATURES ==
    <<[word |-> "1000", coef |-> -180, shown |-> "-0.18"],
      [word |-> "10gb", coef |-> -198, shown |-> "-0.2"],
      [word |-> "and", coef |-> 580, shown |-> "0.58"],
      [word |-> "application", coef |-> 186, shown |-> "0.19"],
      [word |-> "be", coef |-> 580, shown |-> "0.58"],
      [word |-> "daily", coef |-> -198, shown |-> "-0.2"],
      [word |-> "fast", coef |-> 226, shown |-> "0.23"],
      [word |-> "flexible", coef |-> 169, shown |-> "0.17"],
      [word |-> "friendly", coef |-> 169, shown |-> "0.17"],
      [word |-> "handle", coef |-> -180, shown |-> "-0.18"],
      [word |-> "in", coef |-> -203, shown |-> "-0.2"],
      [word |-> "logs", coef |-> -198, shown |-> "-0.2"],
      [word |-> "must", coef |-> -12, shown |-> "-0.01"],
      [word |-> "of", coef |-> -198, shown |-> "-0.2"],
      [word |-> "process", coef |-> -180, shown |-> "-0.18"],
      [word |-> "records", coef |-> -180, shown |-> "-0.18"],
      [word |-> "reliable", coef |-> 186, shown |-> "0.19"],
      [word |-> "respond", coef |-> -203, shown |-> "-0.2"],
      [word |-> "robust", coef |-> 186, shown |-> "0.19"],
      [word |-> "scalable", coef |-> 226, shown |-> "0.23"],
      [word |-> "seconds", coef |-> -382, shown |-> "-0.38"],
      [word |-> "shall", coef |-> 23, shown |-> "0.02"],
      [word |-> "should", coef |-> -11, shown |-> "-0.01"],
      [word |-> "store", coef |-> -198, shown |-> "-0.2"],
      [word |-> "system", coef |-> -175, shown |-> "-0.17"],
      [word |-> "the", coef |-> 0, shown |-> "0.0"],
      [word |-> "ui", coef |-> 169, shown |-> "0.17"],
      [word |-> "under", coef |-> -203, shown |-> "-0.2"],
      [word |-> "user", coef |-> 169, shown |-> "0.17"],
      [word |-> "within", coef |-> -180, shown |-> "-0.18"]>>

\* clf.intercept_[0], in thousandths
INTERCEPT == -227

\* the start positions of the tokens of CountVectorizer's default analyzer,
\* (?u)\b\w\w+\b: maximal runs of two or more \w characters
TokenStarts(cs) ==
    {i \in 1..Len(cs) :
        IsWordAt(cs, i) /\ ~IsWordAt(cs, i - 1) /\ IsWordAt(cs, i + 1)}

\* the count of `word` in vectorizer.transform([sentence]): the tokens of the
\* lower-cased sentence equal to it
FeatureCount(cs, starts, word) ==
    LET w == Chars(word)
        n == Len(w)
    IN  Cardinality({i \in starts :
            /\ cs[i] = w[1]
            /\ i + n - 1 <= Len(cs)
            /\ SubSeq(cs, i, i + n - 1) = w
            /\ ~IsWordAt(cs, i + n)})

\* vectorizer.transform([sentence]): the count of every vocabulary word
Transform(sentence) ==
    LET cs == Lower(Chars(sentence))
        starts == TokenStarts(cs)
    IN  [f \in 1..Len(FEATURES) |-> FeatureCount(cs, starts, FEATURES[f].word)]

RECURSIVE Dot(_, _)
Dot(vec, f) ==
    IF f = 0 THEN 0 ELSE vec[f] * FEATURES[f].coef + Dot(vec, f - 1)

\* the decision function behind clf.predict_proba(vec)[0][1], in
\* thousandths: predict_unclear returns sigmoid(score / 1000)
predict_unclear(sentence) ==
    INTERCEPT + Dot(Transform(sentence), Len(FEATURES))

\* logit(p) = ln(p / (1 - p)) in thousandths, for the values p (in percent)
\* of the ml_threshold slider: sigmoid(x) > p  iff  x > logit(p)
Logit ==
    [p \in {10, 15, 20, 25, 30, 35, 40, 45, 50, 55, 60, 65, 70, 75, 80, 85, 90} |->
        CASE p = 10 -> -2197 [] p = 15 -> -1735 [] p = 20 -> -1386
          [] p = 25 -> -1099 [] p = 30 -> -847  [] p = 35 -> -619
          [] p = 40 -> -405  [] p = 45 -> -201  [] p = 50 -> 0
          [] p = 55 -> 201   [] p = 60 -> 405   [] p = 65 -> 619
          [] p = 70 -> 847   [] p = 75 -> 1099  [] p = 80 -> 1386
          [] p = 85 -> 1735  [] p = 90 -> 2197]

\* prob_unclear > ml_threshold, the threshold in percent
ExceedsThreshold(score, ml_threshold) == score > Logit[ml_threshold]

Abs(x) == IF x < 0 THEN -x ELSE x

\* sorted(items, key=lambda x: abs(x[1]), reverse=True): a stable sort, so
\* features of equal |weight| stay in vocabulary order
RECURSIVE SortByAbsDesc(_)
SortByAbsDesc(idx) ==
    IF idx = <<>> THEN <<>>
    ELSE LET best == SetMin({i \in 1..Len(idx) :
                        \A j \in 1..Len(idx) :
                            Abs(FEATURES[idx[i]].coef) >= Abs(FEATURES[idx[j]].coef)})
         IN  <<idx[best]>> \o
             SortByAbsDesc(SubSeq(idx, 1, best - 1) \o SubSeq(idx, best + 1, Len(idx)))

TOP_N == 5

\* explain_features(sentence): the (at most top_n) vocabulary words present,
\* as indices into FEATURES
explain_features(sentence) ==
    LET vec == Transform(sentence)
        feature_idx == SelectSeq([f \in 1..Len(FEATURES) |-> f],
                                 LAMBDA f : vec[f] > 0)
    IN  Slice(SortByAbsDesc(feature_idx), 0, TOP_N)

----------------------------------------------------------------------------
(* detector.py: analyze_requirement                                        *)

\* sorted(tags): the tag names in lexicographic order
TAG_ORDER == <<"COMPLEX_SENTENCE", "ML_AMBIGUITY", "NO_CONSTRAINTS", "VAGUE_TERMS">>

\* f"{w} ({round(wt, 2)})" for a feature index
FormatFeature(f) == FEATURES[f].word \o " (" \o FEATURES[f].shown \o ")"

\* the classification with `len(reasons) <= 2` for the middle class
StatusOf_TwoIsPartial(n) ==
    IF n = 0 THEN "Clear"
    ELSE IF n <= 2 THEN "Partially Clear"
    ELSE "Unclear"

\* the final classification on len(reasons)
StatusOf(n) ==
    IF n = 0 THEN "Clear"
    ELSE IF n = 1 THEN "Partially Clear"
    ELSE "Unclear"

SeverityOf(status) ==
    IF status = "Clear" THEN 1
    ELSE IF status = "Partially Clear" THEN 2
    ELSE 3

\* the guard without the look at the reasons so far
MLGuard_IgnoresVague(prob_unclear, ml_threshold, reasons) ==
    ExceedsThreshold(prob_unclear, ml_threshold)

\* the ML layer's guard:
\* prob_unclear > ml_threshold and "Vague terms" not in ''.join(reasons)
MLGuard(prob_unclear, ml_threshold, reasons) ==
    /\ ExceedsThreshold(prob_unclear, ml_threshold)
    /\ ~Contains(Join("", reasons), "Vague terms")

\* the reasons the feature listing leaves: reasons.append(...) before the
\* final classification
WithTopFeatures(reasons, top_features) ==
    IF top_features # <<>>
    THEN Append(reasons, "Top influential words (ML): "
                  \o Join(", ", [i \in 1..Len(top_features) |->
                                    FormatFeature(top_features[i])]))
    ELSE reasons

\* the body of analyze_requirement: every local at the return statement
AnalyzeLocals(text, max_length, ml_threshold) ==
    LET vague == detect_vague_terms(text)
        reasons1 == IF vague # <<>>
                    THEN <<"Vague terms detected: " \o Join(", ", vague)>>
                    ELSE <<>>
        tags1 == IF vague # <<>> THEN {"VAGUE_TERMS"} ELSE {}
        complex == detect_complex_sentence(text, max_length)
        reasons2 == IF complex
                    THEN Append(reasons1, "Sentence too long or complex.")
                    ELSE reasons1
        tags2 == IF complex THEN tags1 \cup {"COMPLEX_SENTENCE"} ELSE tags1
        missing == detect_missing_constraints(text)
        reasons3 == IF missing
                    THEN Append(reasons2, "No measurable constraints provided.")
                    ELSE reasons2
        tags3 == IF missing THEN tags2 \cup {"NO_CONSTRAINTS"} ELSE tags2
        prob_unclear == predict_unclear(text)
        ml == MLGuard(prob_unclear, ml_threshold, reasons3)
        reasons4 == IF ml
                    THEN Append(reasons3, "ML model suggests possible ambiguity.")
                    ELSE reasons3
        tags4 == IF ml THEN tags3 \cup {"ML_AMBIGUITY"} ELSE tags3
        top_features == explain_features(text)
        reasons5 == WithTopFeatures(reasons4, top_features)
        status == StatusOf(Len(reasons5))
    IN  [text |-> text, max_length |-> max_length, ml_threshold |-> ml_threshold,
         vague |-> vague, complex |-> complex, missing |-> missing,
         prob_unclear |-> prob_unclear, ml |-> ml,
         top_features |-> top_features,
         reasons |-> reasons5, tags |-> tags4,
         status |-> status, severity |-> SeverityOf(status)]

\* the dict analyze_requirement returns, from its locals
Verdict(l) ==
    [status |-> l.status,
     reasons |-> IF l.reasons # <<>> THEN l.reasons
                 ELSE <<"Sentence appears well-defined.">>,
     tags |-> Filter(TAG_ORDER, l.tags),
     severity |-> l.severity]

analyze_requirement(text, max_length, ml_threshold) ==
    Verdict(AnalyzeLocals(text, max_length, ml_threshold))

----------------------------------------------------------------------------
(* detector.py: suggest_rewrite                                            *)

\* the placeholders without the branch for scalable and flexible
Replacement_NoScalable(term) ==
    IF term \in {"fast", "quick", "efficient"}
        THEN "respond within [X seconds]"
    ELSE IF term \in {"many", "large"}
        THEN "[N] users"
    ELSE IF term = "user-friendly"
        THEN "achieve a usability score of at least [X]/[Y]"
    ELSE IF term \in {"robust", "reliable"}
        THEN "maintain an uptime of [X]% over [Y] days"
    ELSE IF term = "secure"
        THEN "meet [X] security standard (e.g., OWASP Top 10)"
    ELSE term

\* the placeholders with a concrete default in place of [X seconds]
Replacement_ConcreteSeconds(term) ==
    IF term \in {"fast", "quick", "efficient"}
        THEN "respond within 2 seconds"
    ELSE IF term \in {"many", "large"}
        THEN "[N] users"
    ELSE IF term = "user-friendly"
        THEN "achieve a usability score of at least [X]/[Y]"
    ELSE IF term \in {"scalable", "flexible"}
        THEN "support up to [N] users without performance degradation"
    ELSE IF term \in {"robust", "reliable"}
        THEN "maintain an uptime of [X]% over [Y] days"
    ELSE IF term = "secure"
        THEN "meet [X] security standard (e.g., OWASP Top 10)"
    ELSE term

\* the placeholder a vague term is replaced by
Replacement(term) ==
    IF term \in {"fast", "quick", "efficient"}
        THEN "respond within [X seconds]"
    ELSE IF term \in {"many", "large"}
        THEN "[N] users"
    ELSE IF term = "user-friendly"
        THEN "achieve a usability score of at least [X]/[Y]"
    ELSE IF term \in {"scalable", "flexible"}
        THEN "support up to [N] users without performance degradation"
    ELSE IF term \in {"robust", "reliable"}
        THEN "maintain an uptime of [X]% over [Y] days"
    ELSE IF term = "secure"
        THEN "meet [X] security standard (e.g., OWASP Top 10)"
    ELSE term

\* the terms one call adjusts: present_terms[start_index:start_index + 2]
\* of the terms present in the text the call is given
ToFix(text, iteration) ==
    LET present_terms == detect_vague_terms(text)
        start_index == (iteration - 1) * 2
    IN  Slice(present_terms, start_index, start_index + 2)

\* for term in to_fix: suggestion = pattern.sub(replacement, suggestion)
RECURSIVE FixTerms(_, _)
FixTerms(suggestion, to_fix) ==
    IF to_fix = <<>> THEN suggestion
    ELSE FixTerms(SubCI(suggestion, Head(to_fix), Replacement(Head(to_fix))),
                  Tail(to_fix))

suggest_rewrite(text, tags, iteration) ==
    LET s1 == IF "VAGUE_TERMS" \in Range(tags)
              THEN FixTerms(text, ToFix(text, iteration))
              ELSE text
        s2 == IF "NO_CONSTRAINTS" \in Range(tags)
              THEN RStrip(s1, {" ", "."})
                   \o ". The system shall respond within [X seconds] for up to [N] users."
              ELSE s1
    IN  IF "COMPLEX_SENTENCE" \in Range(tags) /\ Contains(s2, " and ")
        THEN ReplaceFirst(s2, " and ", "; and ")
        ELSE s2

----------------------------------------------------------------------------
(* app.py: the Agent Assist page.  Every action is one run of the script,  *)
(* started by one click or edit.                                           *)

VARIABLES
    original_text,           \* the "Original requirement" text area
    max_length,              \* sidebar slider
    ml_threshold,            \* sidebar slider, in percent
    agent_iteration,         \* st.session_state["agent_iteration"]
    agent_original_severity, \* st.session_state["agent_original_severity"]
    agent_suggestion,        \* st.session_state["agent_suggestion"]
    agent_base_result,       \* st.session_state["agent_base_result"]
    call,                    \* locals of the latest analyze_requirement call
    first_result,            \* the verdict the latest start computed
    run,                     \* what the latest run of the script did
    advances,                \* re-analyses since the latest start
    edited,                  \* the user typed over the suggestion since then
    idle,                    \* no start since the latest reset (or ever)
    hl                       \* the highlighting applied to original_text

vars ==
    <<original_text, max_length, ml_threshold, agent_iteration,
      agent_original_severity, agent_suggestion, agent_base_result,
      call, first_result, run, advances, edited, idle, hl>>

\* a session key that is None or missing is <<>>, a key holding v is <<v>>
None == <<>>
Some(v) == <<v>>

\* bounds of the model
MaxAdvances == 2
MaxPasses == 2

\* the requirements the modelled user may have typed
Texts ==
    {" ",
     "The system shall be fast and scalable.",
     "Latency 5 ms",
     "The system shall respond in under 2 seconds.",
     "Fast quick secure and easy",
     "The UI and application load in 5 ms",
     "quick",
     "It must be user-friendly, simple, robust, reliable, flexible and large",
     "Uptime 5%",
     "Handle 50 usersmany times"}

\* what the modelled user may type over the suggestion
EditTexts == {"", "easy to use"}

\* the sliders' defaults: 20 tokens and 0.6, in percent
DEFAULT_MAX_LENGTH == 20
DEFAULT_ML_THRESHOLD == 60

\* the slider positions <<max_length, ml_threshold>> the modelled user
\* chooses among; the sliders run from 5 to 60 and from 10 to 90 percent
Sliders ==
    {<<DEFAULT_MAX_LENGTH, DEFAULT_ML_THRESHOLD>>,
     <<5, DEFAULT_ML_THRESHOLD>>,
     <<DEFAULT_MAX_LENGTH, 10>>}

NoRun == [op |-> "none", tags |-> <<>>, text |-> "", shown_original |-> None]

NoHl == [kind |-> "none", passes |-> 0, input |-> "", out |-> ""]

\* the session state the script initialises, before any click
Fresh ==
    /\ agent_iteration = 1
    /\ agent_original_severity = None
    /\ agent_suggestion = None
    /\ agent_base_result = None
    /\ call = None
    /\ first_result = None
    /\ run = NoRun
    /\ advances = 0
    /\ edited = FALSE
    /\ idle = TRUE

Init ==
    /\ original_text \in Texts
    /\ \E pos \in Sliders : max_length = pos[1] /\ ml_threshold = pos[2]
    /\ Fresh
    /\ hl = NoHl

\* `if st.session_state.get("agent_base_result") and original_text.strip()`:
\* the panel with the "Re-analyze suggested version" button is rendered
PanelShown == agent_base_result # None /\ StripNonEmpty(original_text)

\* "Analyze with Agent" clicked with a non-blank requirement: start.
\* (\E over a singleton names a value that is computed once.)
RunAgent ==
    /\ StripNonEmpty(original_text)
    /\ \E l \in {AnalyzeLocals(original_text, max_length, ml_threshold)} :
       \E base_result \in {Verdict(l)} :
       \E suggestion_text \in
              {suggest_rewrite(original_text, base_result.tags, 1)} :
           /\ agent_original_severity' = Some(base_result.severity)
           /\ agent_iteration' = 1
           /\ agent_suggestion' = Some(suggestion_text)
           /\ agent_base_result' = Some(base_result)
           /\ call' = Some(l)
           /\ first_result' = Some(base_result)
           /\ run' = [op |-> "start", tags |-> base_result.tags,
                      text |-> original_text, shown_original |-> Some(base_result)]
    /\ advances' = 0
    /\ edited' = FALSE
    /\ idle' = FALSE
    /\ UNCHANGED <<original_text, max_length, ml_threshold, hl>>

\* "Reset agent state" clicked: reset
ResetAgent ==
    /\ agent_iteration' = 1
    /\ agent_original_severity' = None
    /\ run' = [op |-> "reset", tags |-> <<>>, text |-> "",
               shown_original |-> IF PanelShown THEN agent_base_result ELSE None]
    /\ idle' = TRUE
    /\ UNCHANGED <<original_text, max_length, ml_threshold, agent_suggestion,
                   agent_base_result, call, first_result, advances, edited, hl>>

\* the user types over the "Suggested clearer version" text area
EditSuggestion ==
    /\ PanelShown
    /\ \E t \in EditTexts :
           /\ Some(t) # agent_suggestion
           /\ agent_suggestion' = Some(t)
    /\ edited' = TRUE
    /\ run' = [op |-> "edit", tags |-> <<>>, text |-> "",
               shown_original |-> agent_base_result]
    /\ UNCHANGED <<original_text, max_length, ml_threshold, agent_iteration,
                   agent_original_severity, agent_base_result, call,
                   first_result, advances, idle, hl>>

\* "Re-analyze suggested version" clicked: advance
Reanalyze ==
    /\ PanelShown
    /\ advances < MaxAdvances
    /\ \E base_result \in {agent_base_result[1]} :
       \E suggestion_text \in {IF agent_suggestion # None
                               THEN agent_suggestion[1] ELSE original_text} :
       \E iter_idx \in {agent_iteration + 1} :
       \E refined_suggestion \in
              {suggest_rewrite(suggestion_text, base_result.tags, iter_idx)} :
       \E l \in {AnalyzeLocals(refined_suggestion, max_length, ml_threshold)} :
       \E suggested_result \in {Verdict(l)} :
           /\ agent_iteration' = iter_idx
           /\ agent_suggestion' = Some(refined_suggestion)
           /\ agent_base_result' = Some(suggested_result)
           /\ call' = Some(l)
           /\ run' = [op |-> "advance", tags |-> base_result.tags,
                      text |-> suggestion_text,
                      shown_original |-> Some(base_result)]
    /\ advances' = advances + 1
    /\ UNCHANGED <<original_text, max_length, ml_threshold,
                   agent_original_severity, first_result, edited, idle, hl>>

Next == RunAgent \/ ResetAgent \/ EditSuggestion \/ Reanalyze

Spec == Init /\ [][Next]_vars

----------------------------------------------------------------------------
(* The highlighting functions on their own: a text is highlighted, and the *)
(* result is highlighted again.                                            *)

\* the fragments the highlighted texts are composed of
HighlightParts == {"", "Fast", " and simpleasy", "user-friendly ", "SECURE", "the UI "}

HighlightTexts == {a \o b : a \in HighlightParts, b \in HighlightParts}

InitHighlight ==
    /\ original_text \in HighlightTexts
    /\ max_length = DEFAULT_MAX_LENGTH
    /\ ml_threshold = DEFAULT_ML_THRESHOLD
    /\ Fresh
    /\ hl = NoHl

\* the text the next highlighting call is given
HighlightInput == IF hl.passes = 0 THEN original_text ELSE hl.out

HighlightBold ==
    /\ hl.kind \in {"none", "bold"}
    /\ hl.passes < MaxPasses
    /\ hl' = [kind |-> "bold", passes |-> hl.passes + 1,
              input |-> HighlightInput,
              out |-> highlight_vague_terms(HighlightInput)]
    /\ UNCHANGED <<original_text, max_length, ml_threshold, agent_iteration,
                   agent_original_severity, agent_suggestion, agent_base_result,
                   call, first_result, run, advances, edited, idle>>

HighlightColored ==
    /\ hl.kind \in {"none", "colored"}
    /\ hl.passes < MaxPasses
    /\ hl' = [kind |-> "colored", passes |-> hl.passes + 1,
              input |-> HighlightInput,
              out |-> highlight_vague_terms_colored(HighlightInput)]
    /\ UNCHANGED <<original_text, max_length, ml_threshold, agent_iteration,
                   agent_original_severity, agent_suggestion, agent_base_result,
                   call, first_result, run, advances, edited, idle>>

NextHighlight == HighlightBold \/ HighlightColored

SpecHighlight == InitHighlight /\ [][NextHighlight]_vars

----------------------------------------------------------------------------
(* Properties of the analyzer, read off the latest analyze_requirement     *)
(* call of the session: `call` holds its locals, agent_base_result the     *)
(* verdict it returned.                                                    *)

Analysed == agent_base_result # None

\* how many of the steps 1-5 of analyze_requirement appended a reason
StepsFired(l) ==
    (IF l.vague # <<>> THEN 1 ELSE 0) + (IF l.complex THEN 1 ELSE 0)
      + (IF l.missing THEN 1 ELSE 0) + (IF l.ml THEN 1 ELSE 0)
      + (IF l.top_features # <<>> THEN 1 ELSE 0)

\* how many of the rule and ML checks (steps 1-4) fired
ChecksFired(l) ==
    (IF l.vague # <<>> THEN 1 ELSE 0) + (IF l.complex THEN 1 ELSE 0)
      + (IF l.missing THEN 1 ELSE 0) + (IF l.ml THEN 1 ELSE 0)

\* C1: the status and severity of a verdict are determined by the number of
\* reasons steps 1-5 accumulated: none gives Clear / 1 (and the substitute
\* reason "Sentence appears well-defined." is then the only reason returned,
\* without changing the classification), exactly one gives Partially
\* Clear / 2, two or more give Unclear / 3.
C1_ClassifiedByReasonCount ==
    Analysed =>
        LET l == call[1]
            v == agent_base_result[1]
            n == Len(l.reasons)
        IN  /\ n = StepsFired(l)
            /\ n = 0 => /\ v.status = "Clear" /\ v.severity = 1
                        /\ v.reasons = <<"Sentence appears well-defined.">>
            /\ n = 1 => /\ v.status = "Partially Clear" /\ v.severity = 2
                        /\ v.reasons = l.reasons
            /\ n >= 2 => /\ v.status = "Unclear" /\ v.severity = 3
                         /\ v.reasons = l.reasons

\* an analysis that accumulated exactly two reasons
C1_Witness ==
    /\ Analysed
    /\ Len(call[1].reasons) = 2
    /\ agent_base_result[1].status = "Unclear"

\* C2: the "Top influential words" reason is informational only: it adds no
\* tag and has no influence on the classification, so the status and the
\* severity are those of the number of checks that fired.
C2_FeatureListingIsInformational ==
    Analysed =>
        LET l == call[1]
            v == agent_base_result[1]
            n == ChecksFired(l)
        IN  /\ Len(v.tags) = n
            /\ n = 0 => v.status = "Clear" /\ v.severity = 1
            /\ n = 1 => v.status = "Partially Clear" /\ v.severity = 2
            /\ n >= 2 => v.status = "Unclear" /\ v.severity = 3

\* some lexicon term is a substring of the lower-cased text
HasLexiconTerm(text) ==
    \E i \in 1..Len(VAGUE_WORDS) : ContainsCI(text, VAGUE_WORDS[i])

\* a digit, optional whitespace and then a unit occur somewhere in the text
HasDigitThenUnit(text) ==
    LET cs == Lower(Chars(text))
    IN  \E i \in 1..Len(cs) :
            /\ cs[i] \in Digits
            /\ \E k \in (i + 1)..(Len(cs) + 1) :
                   /\ \A m \in (i + 1)..(k - 1) : cs[m] \in Whitespace
                   /\ \E u \in Units : MatchAt(cs, k, Chars(u))

\* C3: a text that contains a lexicon term and no digit-plus-unit pattern is
\* tagged VAGUE_TERMS and NO_CONSTRAINTS, has at least two reasons, and is
\* classified Unclear with severity 3.
C3_VagueAndUnconstrainedIsUnclear ==
    (Analysed /\ HasLexiconTerm(call[1].text) /\ ~HasDigitThenUnit(call[1].text)) =>
        LET v == agent_base_result[1]
        IN  /\ {"VAGUE_TERMS", "NO_CONSTRAINTS"} \subseteq Range(v.tags)
            /\ Len(v.reasons) >= 2
            /\ v.status = "Unclear"
            /\ v.severity = 3

\* a re-analysed suggestion that still has a lexicon term and names a unit
\* in a placeholder, without a number
C3_Witness ==
    /\ Analysed
    /\ run.op = "advance"
    /\ HasLexiconTerm(call[1].text)
    /\ ~HasDigitThenUnit(call[1].text)
    /\ Contains(call[1].text, "[X seconds]")
    /\ agent_base_result[1].status = "Unclear"

\* C4: the ML reason and the ML_AMBIGUITY tag are appended exactly when the
\* unclear-probability is strictly above ml_threshold and step 1 found no
\* lexicon term; a verdict never has both VAGUE_TERMS and ML_AMBIGUITY.
C4_MLOnlyWithoutVagueTerms ==
    Analysed =>
        LET l == call[1]
            v == agent_base_result[1]
            due == l.prob_unclear > Logit[l.ml_threshold] /\ ~HasLexiconTerm(l.text)
        IN  /\ ("ML_AMBIGUITY" \in Range(v.tags)) <=> due
            /\ ("ML model suggests possible ambiguity." \in Range(v.reasons)) <=> due
            /\ ~({"VAGUE_TERMS", "ML_AMBIGUITY"} \subseteq Range(v.tags))

\* a probability above the threshold on a text with a lexicon term: the ML
\* layer stays silent
C4_Witness ==
    /\ Analysed
    /\ call[1].prob_unclear > Logit[call[1].ml_threshold]
    /\ HasLexiconTerm(call[1].text)
    /\ "VAGUE_TERMS" \in Range(agent_base_result[1].tags)
    /\ "ML_AMBIGUITY" \notin Range(agent_base_result[1].tags)

\* C11: the empty string is a valid input of analyze_requirement under the
\* default max_length and ml_threshold: the call returns a well-defined
\* verdict, and its status is Clear with severity 1.
C11_EmptyStringIsClear ==
    (/\ Analysed
     /\ call[1].text = ""
     /\ call[1].max_length = DEFAULT_MAX_LENGTH
     /\ call[1].ml_threshold = DEFAULT_ML_THRESHOLD) =>
        LET v == agent_base_result[1]
        IN  /\ v.reasons # <<>>
            /\ v.status = "Clear"
            /\ v.severity = 1

----------------------------------------------------------------------------
(* Properties of the Agent Assist session                                  *)

\* the verdict the "Original" side of the panel is rendered from
OriginalShown == agent_base_result

\* C5: every advance re-runs the suggester on the current suggestion text
\* with the tags of the ORIGINAL verdict (the one start computed), at the
\* iteration counter it has just incremented.
C5_AdvanceUsesOriginalTags ==
    run.op = "advance" =>
        /\ run.tags = first_result[1].tags
        /\ agent_iteration >= 2

\* C6: across any number of advances the session keeps the original verdict
\* and the original severity: an advance never replaces the verdict the
\* "Original" comparison is rendered from.
C6_OriginalVerdictRetained ==
    (first_result # None /\ ~idle) =>
        /\ agent_original_severity = Some(first_result[1].severity)
        /\ OriginalShown = first_result

\* C7: after a reset the session is idle: the iteration counter is 1, the
\* original severity is cleared, and no advance is available until the next
\* start.
C7_ResetLeavesNoAdvance ==
    idle =>
        /\ agent_iteration = 1
        /\ agent_original_severity = None
        /\ ~PanelShown

\* C8: start replaces the first two lexicon terms present in the original
\* requirement and the first advance the next two: after start and one
\* advance (the suggestion not typed over) the first four terms are gone.
C8_TwoRoundsReplaceFourTerms ==
    (run.op = "advance" /\ advances = 1 /\ ~edited) =>
        LET terms == detect_vague_terms(original_text)
        IN  Len(terms) >= 4 =>
                \A i \in 1..4 : ~ContainsCI(agent_suggestion[1], terms[i])

SCENARIO_1 == "The system shall be fast and scalable."

\* start and one advance on the scenario-1 requirement under the default
\* thresholds, the suggestion not typed over
Scenario1Refined ==
    /\ original_text = SCENARIO_1
    /\ max_length = DEFAULT_MAX_LENGTH
    /\ ml_threshold = DEFAULT_ML_THRESHOLD
    /\ run.op = "advance"
    /\ advances = 1
    /\ ~edited

\* C9: for the scenario-1 requirement under the default thresholds, after
\* start and one advance the refined suggestion's verdict has no more
\* reasons than the original verdict.
C9_Scenario1ReasonsDoNotGrow ==
    Scenario1Refined =>
        Len(agent_base_result[1].reasons) <= Len(first_result[1].reasons)

\* the refined scenario-1 suggestion: both terms replaced, re-analysed
C9_Witness ==
    /\ Scenario1Refined
    /\ ~HasLexiconTerm(agent_suggestion[1])
    /\ call[1].text = agent_suggestion[1]

\* at least one advance since the start, the suggestion never typed over
AdvancedUnedited == advances >= 1 /\ ~edited

----------------------------------------------------------------------------
(* Properties of the highlighting functions                                *)

\* C10 as stated: highlighting (either variant) is idempotent: applying it
\* to its own output changes nothing.
C10_HighlightIdempotent ==
    hl.passes = 2 => hl.out = hl.input

\* C10, amended: highlighting (either variant) returns its input unchanged
\* exactly when the text has no lexicon term; applied to a text with a term,
\* and again to its own output, it wraps the term once more each time, so
\* every application makes the text longer.
C10_HighlightFixesOnlyTermFreeTexts ==
    hl.passes >= 1 =>
        /\ (hl.out = hl.input) <=> ~HasLexiconTerm(original_text)
        /\ HasLexiconTerm(original_text) => Len(hl.out) > Len(hl.input)

\* a second application to a text with a term, which wraps it again
C10_Witness ==
    /\ hl.passes = 2
    /\ HasLexiconTerm(original_text)
    /\ hl.out # hl.input

====
